---- MODULE Spec2Model ----
(***************************************************************************)
(* Model of the voice assistant App component (src/unnamed/part_000): the  *)
(* Gemini Live session lifecycle (connectToGemini, the onopen / onmessage  *)
(* / onclose / onerror callbacks, startMicrophone, playAudioBuffer,        *)
(* disconnect, toggleConnection) and the device registry it mutates.       *)
(*                                                                         *)
(* The JavaScript runtime is single threaded: every event handler runs to  *)
(* its first `await` (or to its end) without interleaving.  One action of  *)
(* the model is one such run-to-completion piece.  React state setters are *)
(* taken to be committed when the handler that called them ends.           *)
(***************************************************************************)
EXTENDS Integers, Sequences, FiniteSets, TLC

-----------------------------------------------------------------------------
(* Bounds of the model                                                     *)

\* connection attempts (connectToGemini calls) in one behaviour
MaxSessions == 2

\* inbound messages in one behaviour of Spec
MaxMsgs == 1

\* inbound messages in one behaviour of SpecDispatch
MaxToolMsgs == 2

\* inbound audio messages in one behaviour of SpecPlayback
MaxBuffers == 3

\* onaudioprocess events in one behaviour of Spec
MaxFrames == 1

\* onaudioprocess events in one behaviour of SpecCapture
MaxCaptureFrames == 3

\* last instant of an output clock
MaxTime == 2

Sessions == 1..MaxSessions

None == 0

-----------------------------------------------------------------------------
(* Strings that the code inspects character by character are sequences of  *)
(* one-character strings.                                                  *)

UpperChars == << "A", "B", "C", "D", "E", "F", "G", "H", "I", "J", "K", "L", "M",
                 "N", "O", "P", "Q", "R", "S", "T", "U", "V", "W", "X", "Y", "Z" >>

LowerChars == << "a", "b", "c", "d", "e", "f", "g", "h", "i", "j", "k", "l", "m",
                 "n", "o", "p", "q", "r", "s", "t", "u", "v", "w", "x", "y", "z" >>

\* The lower-case letter of every upper-case letter
LowerOf == [c \in {UpperChars[i] : i \in 1..26} |->
               LowerChars[CHOOSE i \in 1..26 : UpperChars[i] = c]]

\* String.prototype.toLowerCase on one character
ToLowerChar(c) == IF c \in DOMAIN LowerOf THEN LowerOf[c] ELSE c

\* String.prototype.toLowerCase
ToLowerCase(str) == [i \in 1..Len(str) |-> ToLowerChar(str[i])]

\* String.prototype.includes: needle occurs in hay as a contiguous substring
Includes(hay, needle) ==
    \E i \in 0..(Len(hay) - Len(needle)) :
        SubSeq(hay, i + 1, i + Len(needle)) = needle

-----------------------------------------------------------------------------
(* Device registry                                                         *)

NameLuzDaSala == << "L","u","z"," ","d","a"," ","S","a","l","a" >>
NameArCondicionado == << "A","r"," ","C","o","n","d","i","c","i","o","n","a","d","o" >>
NamePersiana == << "P","e","r","s","i","a","n","a" >>
NameLuzDaCozinha == << "L","u","z"," ","d","a"," ","C","o","z","i","n","h","a" >>
NameSmartTV == << "S","m","a","r","t"," ","T","V" >>
NameLuzDeLeitura == << "L","u","z"," ","d","e"," ","L","e","i","t","u","r","a" >>

\* The Smart TV entry has no `value` field (value?: number).
INITIAL_DEVICES ==
    << [id |-> "1", name |-> NameLuzDaSala, type |-> "LIGHT", isOn |-> FALSE,
        value |-> 80, room |-> "Sala de Estar"],
       [id |-> "2", name |-> NameArCondicionado, type |-> "AC", isOn |-> TRUE,
        value |-> 24, room |-> "Quarto Principal"],
       [id |-> "3", name |-> NamePersiana, type |-> "BLIND", isOn |-> FALSE,
        value |-> 0, room |-> "Sala de Estar"],
       [id |-> "4", name |-> NameLuzDaCozinha, type |-> "LIGHT", isOn |-> TRUE,
        value |-> 100, room |-> "Cozinha"],
       [id |-> "5", name |-> NameSmartTV, type |-> "APPLIANCE", isOn |-> FALSE,
        room |-> "Sala de Estar"],
       [id |-> "6", name |-> NameLuzDeLeitura, type |-> "LIGHT", isOn |-> FALSE,
        value |-> 50, room |-> "Quarto Principal"] >>

\* A toggle whose map does not compare ids: every device is flipped.
toggleDeviceAll(devs, id) ==
    [i \in 1..Len(devs) |-> [devs[i] EXCEPT !.isOn = ~devs[i].isOn]]

\* prev.map(d => d.id === id ? { ...d, isOn: !d.isOn } : d)
toggleDevice(devs, id) ==
    [i \in 1..Len(devs) |->
        IF devs[i].id = id THEN [devs[i] EXCEPT !.isOn = ~devs[i].isOn]
        ELSE devs[i]]

\* { ...d, value }: the spread keeps every field of d and sets (or adds) value
SpreadValue(d, v) ==
    [f \in (DOMAIN d) \cup {"value"} |-> IF f = "value" THEN v ELSE d[f]]

\* A value update that clamps the value to 0..100.
changeDeviceValueClamped(devs, id, v) ==
    [i \in 1..Len(devs) |->
        IF devs[i].id = id
        THEN SpreadValue(devs[i], IF v < 0 THEN 0 ELSE IF v > 100 THEN 100 ELSE v)
        ELSE devs[i]]

\* prev.map(d => d.id === id ? { ...d, value } : d)
changeDeviceValue(devs, id, v) ==
    [i \in 1..Len(devs) |->
        IF devs[i].id = id THEN SpreadValue(devs[i], v) ELSE devs[i]]

\* d => d.name.toLowerCase().includes(deviceName.toLowerCase())
NameMatches(d, deviceName) ==
    Includes(ToLowerCase(d.name), ToLowerCase(deviceName))

\* A lookup that falls back to the first device when no name matches.
FindDeviceOrFirst(ref, deviceName) ==
    IF \E i \in 1..Len(ref) : NameMatches(ref[i], deviceName)
    THEN CHOOSE i \in 1..Len(ref) :
            /\ NameMatches(ref[i], deviceName)
            /\ \A j \in 1..(i - 1) : ~NameMatches(ref[j], deviceName)
    ELSE 1

\* A lookup that returns the last device that matches.
FindDeviceLast(ref, deviceName) ==
    IF \E i \in 1..Len(ref) : NameMatches(ref[i], deviceName)
    THEN CHOOSE i \in 1..Len(ref) :
            /\ NameMatches(ref[i], deviceName)
            /\ \A j \in (i + 1)..Len(ref) : ~NameMatches(ref[j], deviceName)
    ELSE None

\* Array.prototype.find over devicesRef.current: the index of the first
\* device that matches, None when no device matches.
FindDevice(ref, deviceName) ==
    IF \E i \in 1..Len(ref) : NameMatches(ref[i], deviceName)
    THEN CHOOSE i \in 1..Len(ref) :
            /\ NameMatches(ref[i], deviceName)
            /\ \A j \in 1..(i - 1) : ~NameMatches(ref[j], deviceName)
    ELSE None

-----------------------------------------------------------------------------
(* Tool dispatch: the body of the loop over msg.toolCall.functionCalls     *)

\* let result = { status: 'error', message: 'Unknown device' }
DefaultResult == [status |-> "error", message |-> << "Unknown device" >>]

\* `${target.name} agora está ${shouldBeOn ? 'ligado' : 'desligado'}`
ControlMessage(target, shouldBeOn) ==
    << target.name, "agora está", IF shouldBeOn THEN "ligado" ELSE "desligado" >>

\* `${target.name} ajustado para ${value}`
ValueMessage(target, v) == << target.name, "ajustado para", v >>

\* The result of one function call; reads only devicesRef.current (ref).
CallResult(fc, ref) ==
    LET t == FindDevice(ref, fc.args.deviceName) IN
    IF fc.name = "controlDevice" /\ t # None
    THEN [status |-> "ok",
          message |-> ControlMessage(ref[t], fc.args.action = "turnOn")]
    ELSE IF fc.name = "setDeviceValue" /\ t # None
    THEN [status |-> "ok", message |-> ValueMessage(ref[t], fc.args.value)]
    ELSE DefaultResult

\* A dispatch whose first branch is taken for every name but setDeviceValue.
CallEffectAnyName(fc, ref, devs) ==
    LET t == FindDevice(ref, fc.args.deviceName) IN
    IF fc.name # "setDeviceValue" /\ t # None
    THEN toggleDevice(devs, ref[t].id)
    ELSE IF fc.name = "setDeviceValue" /\ t # None
    THEN changeDeviceValue(devs, ref[t].id, fc.args.value)
    ELSE devs

\* The state update one function call queues (setDevices(prev => ...)).
CallEffect(fc, ref, devs) ==
    LET t == FindDevice(ref, fc.args.deviceName) IN
    IF fc.name = "controlDevice" /\ t # None
    THEN toggleDevice(devs, ref[t].id)
    ELSE IF fc.name = "setDeviceValue" /\ t # None
    THEN changeDeviceValue(devs, ref[t].id, fc.args.value)
    ELSE devs

\* functionResponses.push({ id, name, response: { result } })
FunctionResponse(fc, ref) ==
    [id |-> fc.id, name |-> fc.name, response |-> CallResult(fc, ref)]

RECURSIVE DispatchDevices(_, _, _)
\* The registry after the queued updates of all calls, applied in call order.
DispatchDevices(calls, ref, devs) ==
    IF calls = << >> THEN devs
    ELSE DispatchDevices(Tail(calls), ref, CallEffect(Head(calls), ref, devs))

\* functionResponses built with unshift instead of push: reverse call order.
DispatchResponsesReversed(calls, ref) ==
    [i \in 1..Len(calls) |-> FunctionResponse(calls[Len(calls) + 1 - i], ref)]

\* functionResponses after the loop: one entry per call, in call order.
DispatchResponses(calls, ref) ==
    [i \in 1..Len(calls) |-> FunctionResponse(calls[i], ref)]

-----------------------------------------------------------------------------
(* Inbound server messages the remote peer may send                        *)

QuerySala == << "S","A","L","A" >>
QueryAr == << "a","r" >>
QueryLuz == << "l","u","z" >>
QueryInexistente == << "i","n","e","x" >>
QueryTv == << "t","v" >>
QueryEmpty == << >>
QueryA == << "A" >>
QueryLuzDe == << "L","U","Z"," ","d","e" >>
QueryLong == << "a","r"," ","c","o","n","d","i","c","i","o","n","a","d","o","s" >>

ControlCall(q, action) ==
    [name |-> "controlDevice", args |-> [deviceName |-> q, action |-> action]]

ValueCall(q, v) ==
    [name |-> "setDeviceValue", args |-> [deviceName |-> q, value |-> v]]

\* A call of a function that is not among the declared tools.
UnknownCall(q) ==
    [name |-> "lockDoor", args |-> [deviceName |-> q, action |-> "turnOn"]]

\* msg.toolCall.functionCalls, before the peer has given each call its id
CallBatches ==
    { << ControlCall(QuerySala, "turnOn") >>,
      << UnknownCall(QuerySala) >>,
      << ControlCall(QueryAr, "turnOn"), UnknownCall(QueryAr) >>,
      << ControlCall(QuerySala, "turnOn"), ControlCall(QuerySala, "turnOn") >>,
      << ControlCall(QueryAr, "turnOn") >>,
      << ControlCall(QuerySala, "turnOff") >>,
      << ValueCall(QueryInexistente, 50) >>,
      << ControlCall(QueryInexistente, "turnOn"), ValueCall(QueryLuz, 150) >> }

NoAudio == [present |-> FALSE, valid |-> FALSE, duration |-> 0]

\* serverContent.modelTurn.parts[0].inlineData.data: a payload that decodes
\* to a buffer of the given duration, or one that is malformed
AudioPayload(valid, duration) ==
    [present |-> TRUE, valid |-> valid, duration |-> duration]

Durations == {1, 2}

AudioMsgs == { [audio |-> AudioPayload(TRUE, d), calls |-> << >>] : d \in Durations }

ToolMsgs == { [audio |-> NoAudio, calls |-> b] : b \in CallBatches }

MixedMsgs ==
    { [audio |-> AudioPayload(v, 1), calls |-> << ControlCall(QuerySala, "turnOn") >>] :
        v \in BOOLEAN }

\* The peer gives every function call an id of its own: (message number, index).
WithIds(m, no) ==
    [m EXCEPT !.calls =
        [i \in 1..Len(m.calls) |->
            [id |-> << no, i >>, name |-> m.calls[i].name, args |-> m.calls[i].args]]]

-----------------------------------------------------------------------------
(* State                                                                   *)

VARIABLES
    devices,            \* useState(INITIAL_DEVICES)
    isLiveConnected,    \* useState(false)
    isAudioStreamActive,\* useState(false)
    statusMessage,      \* useState('Toque no microfone para falar')
    audioContextRef,    \* the session whose output AudioContext it holds, or None
    inputSourceRef,     \* the session whose MediaStreamAudioSourceNode it holds, or None
    processorRef,       \* the session whose ScriptProcessorNode it holds, or None
    nextStartTimeRef,   \* playback cursor
    sessionRef,         \* the session whose promise it holds, or None
    transport,          \* per connection attempt: the state of its websocket
    mic,                \* per attempt: where its startMicrophone call stands
    capture,            \* per attempt: its source -> processor -> destination graph
    outCtx,             \* per attempt: the state of the output AudioContext it created
    currentTime,        \* per attempt: currentTime of that AudioContext
    received,           \* inbound messages delivered to onmessage, in order
    awaitingDecode,     \* onmessage runs suspended at `await decodeAudioData`
    sent,               \* calls of session.sendToolResponse / sendRealtimeInput, in order
    sessionPromise,     \* per attempt: whether its session promise has resolved,
                        \* and the callbacks registered with then() until it does
    scheduled,          \* calls of src.start(startAt), in order
    frames              \* number of onaudioprocess events so far

vars == << devices, isLiveConnected, isAudioStreamActive, statusMessage,
           audioContextRef, inputSourceRef, processorRef, nextStartTimeRef,
           sessionRef, transport, mic, capture, outCtx, currentTime, received,
           awaitingDecode, sent, sessionPromise, scheduled, frames >>

MsgIdle == "Toque no microfone para falar"
MsgConnecting == "Conectando..."
MsgListening == "Ouvindo... Pode falar."
MsgConnError == "Erro na conexão. Tente novamente."
MsgSetupError == "Falha ao iniciar. Verifique o microfone."

Init ==
    /\ devices = INITIAL_DEVICES
    /\ isLiveConnected = FALSE
    /\ isAudioStreamActive = FALSE
    /\ statusMessage = MsgIdle
    /\ audioContextRef = None
    /\ inputSourceRef = None
    /\ processorRef = None
    /\ nextStartTimeRef = 0
    /\ sessionRef = None
    /\ transport = [s \in Sessions |-> "none"]
    /\ mic = [s \in Sessions |-> "idle"]
    /\ capture = [s \in Sessions |-> "none"]
    /\ outCtx = [s \in Sessions |-> "none"]
    /\ currentTime = [s \in Sessions |-> 0]
    /\ received = << >>
    /\ awaitingDecode = {}
    /\ sent = << >>
    /\ sessionPromise = [s \in Sessions |-> [resolved |-> FALSE, thens |-> << >>]]
    /\ scheduled = << >>
    /\ frames = 0

\* Number of connectToGemini calls so far; the next call is attempt Attempts + 1.
Attempts == Cardinality({s \in Sessions : transport[s] # "none"})

uiVars == << isLiveConnected, isAudioStreamActive, statusMessage >>
refVars == << audioContextRef, inputSourceRef, processorRef, nextStartTimeRef, sessionRef >>

-----------------------------------------------------------------------------
(* disconnect                                                              *)

\* Everything disconnect() assigns.  Only the processor and the source in
\* the refs are disconnected and only the context in audioContextRef is
\* closed; the media stream and the input context are not touched, and the
\* session is not closed.
disconnect ==
    /\ isLiveConnected' = FALSE
    /\ isAudioStreamActive' = FALSE
    /\ statusMessage' = MsgIdle
    /\ capture' = IF processorRef # None
                  THEN [capture EXCEPT ![processorRef] = "stopped"]
                  ELSE capture
    /\ processorRef' = None
    /\ inputSourceRef' = None
    /\ outCtx' = IF audioContextRef # None
                 THEN [outCtx EXCEPT ![audioContextRef] = "closed"]
                 ELSE outCtx
    /\ audioContextRef' = None
    /\ sessionRef' = None
    /\ nextStartTimeRef' = 0

-----------------------------------------------------------------------------
(* toggleConnection and connectToGemini                                    *)

\* connectToGemini up to `sessionRef.current = sessionPromise`: attempt s gets
\* a fresh output AudioContext (currentTime 0) and its handshake is issued.
\* ai.live.connect is not awaited, so the function ends with the handshake
\* still pending.
connectToGemini(s) ==
    /\ statusMessage' = MsgConnecting
    /\ outCtx' = [outCtx EXCEPT ![s] = "running"]
    /\ currentTime' = [currentTime EXCEPT ![s] = 0]
    /\ audioContextRef' = s
    /\ transport' = [transport EXCEPT ![s] = "pending"]
    /\ sessionRef' = s
    /\ UNCHANGED << devices, isLiveConnected, isAudioStreamActive, inputSourceRef,
                    processorRef, nextStartTimeRef, mic, capture, received,
                    awaitingDecode, sent, sessionPromise, scheduled, frames >>

\* connectToGemini when `new GoogleGenAI` or `new AudioContextClass` throws:
\* nothing was assigned yet, the catch block sets the failure message and
\* calls disconnect(), which replaces the message.
connectToGeminiThrows(s) ==
    /\ transport' = [transport EXCEPT ![s] = "failed"]
    /\ disconnect
    /\ UNCHANGED << devices, mic, currentTime, received, awaitingDecode, sent, sessionPromise,
                    scheduled, frames >>

\* The microphone button, onClick={toggleConnection}, pressed while
\* isLiveConnected: disconnect().
ClickDisconnect ==
    /\ isLiveConnected
    /\ disconnect
    /\ UNCHANGED << devices, transport, mic, currentTime, received,
                    awaitingDecode, sent, sessionPromise, scheduled, frames >>

\* The button pressed while not isLiveConnected: connectToGemini().
ClickConnect ==
    /\ ~isLiveConnected
    /\ Attempts < MaxSessions
    /\ connectToGemini(Attempts + 1)

\* The button pressed while not isLiveConnected, and connectToGemini throws.
ClickConnectThrows ==
    /\ ~isLiveConnected
    /\ Attempts < MaxSessions
    /\ connectToGeminiThrows(Attempts + 1)

-----------------------------------------------------------------------------
(* Session callbacks                                                       *)

\* onopen: marks the session connected and calls startMicrophone, which
\* suspends at `await navigator.mediaDevices.getUserMedia`.
OnOpen(s) ==
    /\ transport[s] = "pending"
    /\ transport' = [transport EXCEPT ![s] = "open"]
    /\ isLiveConnected' = TRUE
    /\ statusMessage' = MsgListening
    /\ mic' = [mic EXCEPT ![s] = "awaiting"]
    /\ UNCHANGED << devices, isAudioStreamActive, refVars, capture, outCtx,
                    currentTime, received, awaitingDecode, sent, sessionPromise, scheduled, frames >>

\* startMicrophone after getUserMedia resolved: builds the capture graph,
\* stores source and processor in the refs and sets isAudioStreamActive.
MicGranted(s) ==
    /\ mic[s] = "awaiting"
    /\ mic' = [mic EXCEPT ![s] = "granted"]
    /\ capture' = [capture EXCEPT ![s] = "running"]
    /\ inputSourceRef' = s
    /\ processorRef' = s
    /\ isAudioStreamActive' = TRUE
    /\ UNCHANGED << devices, isLiveConnected, statusMessage, audioContextRef,
                    nextStartTimeRef, sessionRef, transport, outCtx, currentTime,
                    received, awaitingDecode, sent, sessionPromise, scheduled, frames >>

\* startMicrophone after getUserMedia rejected: the catch block only logs.
MicDenied(s) ==
    /\ mic[s] = "awaiting"
    /\ mic' = [mic EXCEPT ![s] = "denied"]
    /\ UNCHANGED << devices, uiVars, refVars, transport, capture, outCtx,
                    currentTime, received, awaitingDecode, sent, sessionPromise, scheduled, frames >>

\* A then() that runs the callbacks of a pending promise last registered
\* first.
ThenSendLifo(s, call) ==
    IF sessionPromise[s].resolved
    THEN /\ sent' = Append(sent, call)
         /\ UNCHANGED sessionPromise
    ELSE /\ sessionPromise' = [sessionPromise EXCEPT ![s].thens = << call >> \o @]
         /\ UNCHANGED sent

\* sessionPromise.then(session => session.send...(call)): the callback runs
\* at once when the promise of attempt s has resolved, and is kept, behind
\* the callbacks registered before it, while the promise is pending.
ThenSend(s, call) ==
    IF sessionPromise[s].resolved
    THEN /\ sent' = Append(sent, call)
         /\ UNCHANGED sessionPromise
    ELSE /\ sessionPromise' = [sessionPromise EXCEPT ![s].thens = Append(@, call)]
         /\ UNCHANGED sent

\* ai.live.connect resolves once the socket has opened (onopen has been
\* called): the callbacks kept on the promise run in registration order.
SessionResolved(s) ==
    /\ mic[s] # "idle"
    /\ ~sessionPromise[s].resolved
    /\ sent' = sent \o sessionPromise[s].thens
    /\ sessionPromise' = [sessionPromise EXCEPT ![s] = [resolved |-> TRUE, thens |-> << >>]]
    /\ UNCHANGED << devices, uiVars, refVars, transport, mic, capture, outCtx,
                    currentTime, received, awaitingDecode, scheduled, frames >>

\* processor.onaudioprocess: fires while the processor is connected to the
\* graph; frame number frames + 1 is encoded and handed to sessionPromise.then.
OnAudioProcess(s) ==
    /\ capture[s] = "running"
    /\ frames' = frames + 1
    /\ ThenSend(s, [kind |-> "realtimeInput", session |-> s, frame |-> frames + 1])
    /\ UNCHANGED << devices, uiVars, refVars, transport, mic, capture, outCtx,
                    currentTime, received, awaitingDecode, scheduled >>

\* onclose: () => { disconnect(); }
OnClose(s) ==
    /\ transport[s] \in {"open", "errored"}
    /\ transport' = [transport EXCEPT ![s] = "closed"]
    /\ disconnect
    /\ UNCHANGED << devices, mic, currentTime, received, awaitingDecode, sent, sessionPromise,
                    scheduled, frames >>

\* onerror: sets the error message, then disconnect() replaces it.
OnError(s) ==
    /\ transport[s] \in {"pending", "open"}
    /\ transport' = [transport EXCEPT ![s] = "errored"]
    /\ disconnect
    /\ UNCHANGED << devices, mic, currentTime, received, awaitingDecode, sent, sessionPromise,
                    scheduled, frames >>

-----------------------------------------------------------------------------
(* onmessage                                                               *)

Max(a, b) == IF a >= b THEN a ELSE b

\* A scheduler that starts every buffer at the current time and ignores the
\* cursor.
playAudioBufferNow(d) ==
    IF audioContextRef = None
    THEN UNCHANGED << nextStartTimeRef, scheduled >>
    ELSE LET ctxTime == currentTime[audioContextRef]
         IN  /\ scheduled' = Append(scheduled,
                    [ctx |-> audioContextRef, now |-> ctxTime,
                     cursor |-> nextStartTimeRef, startAt |-> ctxTime,
                     duration |-> d])
             /\ nextStartTimeRef' = ctxTime + d

\* playAudioBuffer(buffer) with buffer.duration = d
playAudioBuffer(d) ==
    IF audioContextRef = None
    THEN UNCHANGED << nextStartTimeRef, scheduled >>
    ELSE LET ctxTime == currentTime[audioContextRef]
             startAt == Max(ctxTime, nextStartTimeRef)
         IN  /\ scheduled' = Append(scheduled,
                    [ctx |-> audioContextRef, now |-> ctxTime,
                     cursor |-> nextStartTimeRef, startAt |-> startAt,
                     duration |-> d])
             /\ nextStartTimeRef' = startAt + d

\* Part 2 of onmessage: if (msg.toolCall) { ... sendToolResponse }
HandleToolCalls(s, msg) ==
    IF msg.calls # << >>
    THEN /\ devices' = DispatchDevices(msg.calls, devices, devices)
         /\ ThenSend(s, [kind |-> "toolResponse", session |-> s,
                 functionResponses |-> DispatchResponses(msg.calls, devices)])
    ELSE UNCHANGED << devices, sent, sessionPromise >>

\* onmessage up to its first suspension: with an audio payload and an output
\* context it awaits the decode; otherwise it goes on to the tool calls.
OnMessage(s, m) ==
    /\ transport[s] = "open"
    /\ LET no == Len(received) + 1
           msg == WithIds(m, no)
       IN  /\ received' = Append(received, [session |-> s, msg |-> msg])
           /\ IF msg.audio.present /\ audioContextRef # None
              THEN /\ awaitingDecode' = awaitingDecode \cup {no}
                   /\ UNCHANGED << devices, sent, sessionPromise >>
              ELSE /\ HandleToolCalls(s, msg)
                   /\ UNCHANGED awaitingDecode
    /\ UNCHANGED << uiVars, refVars, transport, mic, capture, outCtx, currentTime,
                    scheduled, frames >>

\* The decode of message no settled with a buffer: playAudioBuffer, then the
\* tool calls of the same message.
DecodeResolved(no) ==
    /\ no \in awaitingDecode
    /\ received[no].msg.audio.valid
    /\ awaitingDecode' = awaitingDecode \ {no}
    /\ playAudioBuffer(received[no].msg.audio.duration)
    /\ HandleToolCalls(received[no].session, received[no].msg)
    /\ UNCHANGED << uiVars, audioContextRef, inputSourceRef, processorRef,
                    sessionRef, transport, mic, capture, outCtx, currentTime,
                    received, frames >>

\* The decode of message no failed: the exception leaves onmessage, which has
\* no try/catch, so the rest of the handler does not run.
DecodeRejected(no) ==
    /\ no \in awaitingDecode
    /\ ~received[no].msg.audio.valid
    /\ awaitingDecode' = awaitingDecode \ {no}
    /\ UNCHANGED << devices, uiVars, refVars, transport, mic, capture, outCtx,
                    currentTime, received, sent, sessionPromise, scheduled, frames >>

\* The output clock of the context in audioContextRef advances.  The clocks
\* of other contexts are never read.
Tick ==
    /\ audioContextRef # None
    /\ currentTime[audioContextRef] < MaxTime
    /\ currentTime' = [currentTime EXCEPT ![audioContextRef] = @ + 1]
    /\ UNCHANGED << devices, uiVars, refVars, transport, mic, capture, outCtx,
                    received, awaitingDecode, sent, sessionPromise, scheduled, frames >>

-----------------------------------------------------------------------------
(* Specifications                                                          *)

\* The lifecycle messages: tool calls alone, and tool calls behind an audio
\* payload that decodes or does not.
LifecycleMsgs ==
    { [audio |-> NoAudio, calls |-> << ControlCall(QuerySala, "turnOn") >>] }
        \cup MixedMsgs

Next ==
    \/ ClickDisconnect
    \/ ClickConnect
    \/ ClickConnectThrows
    \/ \E s \in Sessions : OnOpen(s)
    \/ \E s \in Sessions : MicGranted(s)
    \/ \E s \in Sessions : MicDenied(s)
    \/ \E s \in Sessions : SessionResolved(s)
    \/ \E s \in Sessions : frames < MaxFrames /\ OnAudioProcess(s)
    \/ \E s \in Sessions : OnClose(s)
    \/ \E s \in Sessions : OnError(s)
    \/ \E s \in Sessions : \E m \in LifecycleMsgs :
            Len(received) < MaxMsgs /\ OnMessage(s, m)
    \/ \E no \in 1..MaxMsgs : DecodeResolved(no)
    \/ \E no \in 1..MaxMsgs : DecodeRejected(no)
    \/ Tick

Spec == Init /\ [][Next]_vars

-----------------------------------------------------------------------------
(* The tool dispatcher on a connected session                              *)

\* The state after the button was pressed once, onopen fired, the session
\* promise resolved and the microphone was granted: session 1 is connected
\* and capturing.
InitConnected ==
    /\ devices = INITIAL_DEVICES
    /\ isLiveConnected = TRUE
    /\ isAudioStreamActive = TRUE
    /\ statusMessage = MsgListening
    /\ audioContextRef = 1
    /\ inputSourceRef = 1
    /\ processorRef = 1
    /\ nextStartTimeRef = 0
    /\ sessionRef = 1
    /\ transport = [s \in Sessions |-> IF s = 1 THEN "open" ELSE "none"]
    /\ mic = [s \in Sessions |-> IF s = 1 THEN "granted" ELSE "idle"]
    /\ capture = [s \in Sessions |-> IF s = 1 THEN "running" ELSE "none"]
    /\ outCtx = [s \in Sessions |-> IF s = 1 THEN "running" ELSE "none"]
    /\ currentTime = [s \in Sessions |-> 0]
    /\ received = << >>
    /\ awaitingDecode = {}
    /\ sent = << >>
    /\ sessionPromise = [s \in Sessions |-> [resolved |-> (s = 1), thens |-> << >>]]
    /\ scheduled = << >>
    /\ frames = 0

DispatchMsgs == ToolMsgs \cup MixedMsgs

NextDispatch ==
    \/ \E s \in Sessions : \E m \in DispatchMsgs :
            Len(received) < MaxToolMsgs /\ OnMessage(s, m)
    \/ \E no \in 1..MaxToolMsgs : DecodeResolved(no)
    \/ \E no \in 1..MaxToolMsgs : DecodeRejected(no)
    \/ ClickDisconnect
    \/ \E s \in Sessions : OnClose(s)

SpecDispatch == InitConnected /\ [][NextDispatch]_vars

-----------------------------------------------------------------------------
(* The playback scheduler: audio messages against the output clock         *)

NextPlayback ==
    \/ \E s \in Sessions : \E m \in AudioMsgs :
            Len(received) < MaxBuffers /\ OnMessage(s, m)
    \/ \E no \in 1..MaxBuffers : DecodeResolved(no)
    \/ Tick
    \/ ClickDisconnect
    \/ \E s \in Sessions : OnClose(s)

SpecPlayback == InitConnected /\ [][NextPlayback]_vars

-----------------------------------------------------------------------------
(* The registry under tool calls and the device cards                      *)

\* The cards the user touches: a lamp and the Smart TV.
UiDevices == {1, 5}

\* DeviceCard: onClick={() => onToggle(device.id)}, with onToggle={toggleDevice}
UiToggle(i) ==
    /\ devices' = toggleDevice(devices, devices[i].id)
    /\ UNCHANGED << uiVars, refVars, transport, mic, capture, outCtx, currentTime,
                    received, awaitingDecode, sent, sessionPromise, scheduled, frames >>

\* DeviceCard: the - and + buttons, rendered when the device has a value and
\* is on: onChangeValue(device.id, Math.max(0, value - 10)) and
\* onChangeValue(device.id, Math.min(100, value + 10)).
UiChangeValue(i, up) ==
    /\ "value" \in DOMAIN devices[i]
    /\ devices[i].isOn
    /\ LET v == devices[i].value
           w == IF up THEN (IF v + 10 > 100 THEN 100 ELSE v + 10)
                      ELSE (IF v - 10 < 0 THEN 0 ELSE v - 10)
       IN  devices' = changeDeviceValue(devices, devices[i].id, w)
    /\ UNCHANGED << uiVars, refVars, transport, mic, capture, outCtx, currentTime,
                    received, awaitingDecode, sent, sessionPromise, scheduled, frames >>

\* Tool calls that set values inside and outside 0..100, on devices with and
\* without a value, and that switch a device.
RegistryBatches ==
    { << ValueCall(QueryTv, 50) >>,
      << ValueCall(QueryLuz, 150) >>,
      << ValueCall(QueryAr, -5) >>,
      << ValueCall(QueryInexistente, 50) >>,
      << ControlCall(QueryTv, "turnOn") >>,
      << ControlCall(QuerySala, "turnOff"), ValueCall(QuerySala, 30) >> }

RegistryMsgs == { [audio |-> NoAudio, calls |-> b] : b \in RegistryBatches }

NextRegistry ==
    \/ \E s \in Sessions : \E m \in RegistryMsgs :
            Len(received) < MaxToolMsgs /\ OnMessage(s, m)
    \/ \E i \in UiDevices : UiToggle(i)
    \/ \E i \in UiDevices : \E up \in BOOLEAN : UiChangeValue(i, up)

SpecRegistry == InitConnected /\ [][NextRegistry]_vars

-----------------------------------------------------------------------------
(* The lookup by name, over registries and queries                         *)

Reverse(seq) == [i \in 1..Len(seq) |-> seq[Len(seq) + 1 - i]]

\* Registries the lookup is applied to: the initial one, the same devices
\* in reverse order, parts of it, and the empty registry.
Registries ==
    { INITIAL_DEVICES,
      Reverse(INITIAL_DEVICES),
      SubSeq(INITIAL_DEVICES, 4, 6),
      SubSeq(INITIAL_DEVICES, 2, 5),
      << >> }

LookupQueries ==
    { QuerySala, QueryAr, QueryLuz, QueryInexistente, QueryTv, QueryEmpty,
      QueryA, QueryLuzDe, QueryLong }

\* One call per message, of either tool function, for every query.
LookupMsgs ==
    { [audio |-> NoAudio, calls |-> << ControlCall(q, "turnOn") >>] : q \in LookupQueries }
        \cup
    { [audio |-> NoAudio, calls |-> << ValueCall(q, 10) >>] : q \in LookupQueries }

\* A connected session (as InitConnected) over any of the registries.
InitLookup ==
    /\ devices \in Registries
    /\ isLiveConnected = TRUE
    /\ isAudioStreamActive = TRUE
    /\ statusMessage = MsgListening
    /\ audioContextRef = 1
    /\ inputSourceRef = 1
    /\ processorRef = 1
    /\ nextStartTimeRef = 0
    /\ sessionRef = 1
    /\ transport = [s \in Sessions |-> IF s = 1 THEN "open" ELSE "none"]
    /\ mic = [s \in Sessions |-> IF s = 1 THEN "granted" ELSE "idle"]
    /\ capture = [s \in Sessions |-> IF s = 1 THEN "running" ELSE "none"]
    /\ outCtx = [s \in Sessions |-> IF s = 1 THEN "running" ELSE "none"]
    /\ currentTime = [s \in Sessions |-> 0]
    /\ received = << >>
    /\ awaitingDecode = {}
    /\ sent = << >>
    /\ sessionPromise = [s \in Sessions |-> [resolved |-> (s = 1), thens |-> << >>]]
    /\ scheduled = << >>
    /\ frames = 0

NextLookup ==
    \E s \in Sessions : \E m \in LookupMsgs :
        Len(received) < MaxToolMsgs /\ OnMessage(s, m)

SpecLookup == InitLookup /\ [][NextLookup]_vars

-----------------------------------------------------------------------------
(* The capture pipeline: frames from the microphone to the session         *)

NextCapture ==
    \/ ClickConnect
    \/ ClickDisconnect
    \/ \E s \in Sessions : OnOpen(s)
    \/ \E s \in Sessions : SessionResolved(s)
    \/ \E s \in Sessions : MicGranted(s)
    \/ \E s \in Sessions : frames < MaxCaptureFrames /\ OnAudioProcess(s)
    \/ \E s \in Sessions : OnClose(s)

SpecCapture == Init /\ [][NextCapture]_vars

-----------------------------------------------------------------------------
(* Session phase                                                           *)

\* The phase of the session manager as the component's state shows it:
\* Connected is isLiveConnected; Connecting is the time the status message of
\* connectToGemini stands; the resting state is Idle before the first
\* connection attempt and Closed after it.
Phase ==
    IF isLiveConnected THEN "Connected"
    ELSE IF statusMessage = MsgConnecting THEN "Connecting"
    ELSE IF Attempts = 0 THEN "Idle"
    ELSE "Closed"

\* The MediaStream that getUserMedia gave attempt s.  No code stops its
\* tracks, so it is live from the moment it is granted.
MediaStream(s) == IF mic[s] = "granted" THEN "live" ELSE "none"

\* The input AudioContext (inputCtx) that startMicrophone creates for
\* attempt s.  It is kept in no ref and no code closes it.
InputCtx(s) == IF mic[s] = "granted" THEN "running" ELSE "none"

(* Observations of the logs that the claims below are stated with          *)

\* The step ran disconnect() from onclose, onerror or the catch block of
\* connectToGemini.
DisconnectCalledBack ==
    \E s \in Sessions :
        transport'[s] # transport[s] /\ transport'[s] \in {"closed", "errored", "failed"}

\* The step is one in which the tool-call loop of onmessage ran and handed
\* its batch to sendToolResponse.
ToolLoopRan ==
    /\ sessionPromise' = sessionPromise
    /\ Len(sent') = Len(sent) + 1
    /\ sent'[Len(sent')].kind = "toolResponse"

\* The batch handed over in that step, and the calls it answers.
BatchSent == sent'[Len(sent')].functionResponses

CallsAnswered == received'[BatchSent[1].id[1]].msg.calls

\* No device name contains q, case-insensitively.
NoDeviceNamed(q) ==
    \A i \in 1..Len(devices) : ~Includes(ToLowerCase(devices[i].name), ToLowerCase(q))

\* The tool-response messages sent so far that answer message no.
AnswersTo(no) ==
    { k \in 1..Len(sent) :
        /\ sent[k].kind = "toolResponse"
        /\ \E i \in 1..Len(sent[k].functionResponses) :
              sent[k].functionResponses[i].id[1] = no }

\* The result entries sent so far that carry the call id: (message sent,
\* index in its batch).
ResultsWithId(id) ==
    { kj \in UNION { { << k, j >> : j \in 1..Len(sent[k].functionResponses) } :
                        k \in { k \in 1..Len(sent) : sent[k].kind = "toolResponse" } } :
        sent[kj[1]].functionResponses[kj[2]].id = id }

\* The value of a device as a sequence: empty when the device has no value.
ValueOf(d) == IF "value" \in DOMAIN d THEN << d.value >> ELSE << >>

\* The devices that the step changed.
Changed == { i \in 1..Len(devices) : devices'[i] # devices[i] }

\* The realtime-input calls of attempt s in a log, in the order of the log.
FramesOf(log, s) ==
    SelectSeq(log, LAMBDA c : c.kind = "realtimeInput" /\ c.session = s)

\* The frames of attempt s in the order they reach the session: those
\* sent, then those that wait for the session promise.
Relayed(s) == FramesOf(sent, s) \o FramesOf(sessionPromise[s].thens, s)

\* name contains q, letters compared without regard to case: at some
\* offset every character of q equals the character of name there.
ContainsIgnoringCase(name, q) ==
    \E off \in 0..(Len(name) - Len(q)) :
        \A j \in 1..Len(q) : ToLowerChar(name[off + j]) = ToLowerChar(q[j])

\* The places in the registry of the devices whose name contains q.
Matching(q) == { k \in 1..Len(devices) : ContainsIgnoringCase(devices[k].name, q) }

\* The places in the log of calls of the tool responses sent so far.
ToolResponsesSent == { k \in 1..Len(sent) : sent[k].kind = "toolResponse" }

\* The inbound messages so far whose audio payload decodes, in arrival order.
AudioReceived ==
    SelectSeq(received, LAMBDA r : r.msg.audio.present /\ r.msg.audio.valid)

\* End of the k-th scheduled buffer
EndOf(k) == scheduled[k].startAt + scheduled[k].duration

-----------------------------------------------------------------------------
(* Claims                                                                  *)

\* C1: if disconnect() ran while a handshake was pending (sessionRef is
\* cleared and the transport is still pending), then when onopen fires for
\* that handshake the session is not marked connected, no capture is started
\* and the attempt holds no microphone, capture graph or output clock.
C1_CancelledHandshakeStaysClosed ==
    [][\A s \in Sessions :
          (transport[s] = "pending" /\ sessionRef = None /\ transport'[s] = "open")
          => /\ ~isLiveConnected'
             /\ mic'[s] = "idle"
             /\ capture'[s] = "none"
             /\ outCtx'[s] # "running"]_vars

\* A handshake that is pending after disconnect() ran.
C1_Scenario ==
    \E s \in Sessions : transport[s] = "pending" /\ sessionRef = None

\* C2: in every state where the session is Closed the capture refs are empty
\* and the audio-stream-active flag is off, so a getUserMedia continuation
\* that resumes after disconnect() installs nothing.
C2_ClosedHasNoCapture ==
    Phase = "Closed" =>
        /\ inputSourceRef = None
        /\ processorRef = None
        /\ ~isAudioStreamActive

\* startMicrophone is suspended at getUserMedia while the session is Closed.
C2_Scenario ==
    \E s \in Sessions : mic[s] = "awaiting" /\ Phase = "Closed"

\* C3: a step that delivers an inbound message, or resumes its handler,
\* while the session is not Connected changes no device and sends nothing.
C3_OnlyConnectedHandlesMessages ==
    [][(~isLiveConnected /\ (received' # received \/ awaitingDecode' # awaitingDecode))
          => (devices' = devices /\ sent' = sent)]_vars

\* The transport of a disconnected session is still open.
C3_Scenario ==
    \E s \in Sessions : transport[s] = "open" /\ ~isLiveConnected

\* C4: while the phase is Connecting no further handshake is started and
\* the output clock of the pending one is not replaced by another.
C4_ConnectOnlyFromIdle ==
    [][Phase = "Connecting"
          => /\ \A s \in Sessions : transport'[s] = "pending" => transport[s] = "pending"
             /\ audioContextRef' \in {audioContextRef, None}]_vars

\* Two handshakes are pending at once.
C4_Scenario ==
    Cardinality({s \in Sessions : transport[s] = "pending"}) >= 2

\* C5: after the tool loop ran, every device that a controlDevice call of
\* the batch resolved to (and no later call of the batch resolved to) is on
\* exactly when the action was turnOn, and the message of that call says
\* "ligado" exactly when the device is now on.
C5_PowerFollowsAction ==
    [][ToolLoopRan =>
          \A i \in 1..Len(CallsAnswered) :
              LET fc == CallsAnswered[i]
                  t == FindDevice(devices, fc.args.deviceName)
              IN  (/\ fc.name = "controlDevice"
                   /\ t # None
                   /\ \A j \in (i + 1)..Len(CallsAnswered) :
                          FindDevice(devices, CallsAnswered[j].args.deviceName) # t)
                  => /\ devices'[t].isOn = (fc.args.action = "turnOn")
                     /\ BatchSent[i].response.status = "ok"
                     /\ (BatchSent[i].response.message[3] = "ligado") = devices'[t].isOn]_vars

\* A call for the air conditioner, which is on from the start and is only
\* ever asked to turn on, has been answered with status ok.
C5_Scenario ==
    \E k \in 1..Len(sent) :
        /\ sent[k].kind = "toolResponse"
        /\ sent[k].functionResponses[1].response.status = "ok"
        /\ sent[k].functionResponses[1].response.message[1] = NameArCondicionado

\* C6: dispatching the same controlDevice call twice in one message leaves
\* the registry as dispatching it once does.
C6_SetPowerIdempotent ==
    [][(/\ ToolLoopRan
        /\ Len(CallsAnswered) = 2
        /\ CallsAnswered[1].name = "controlDevice"
        /\ CallsAnswered[2].name = CallsAnswered[1].name
        /\ CallsAnswered[2].args = CallsAnswered[1].args)
          => devices' = DispatchDevices(<< CallsAnswered[1] >>, devices, devices)]_vars

\* C7: once the onmessage run of a received message is over (it is not
\* awaiting a decode) and the session promise has resolved, every call of
\* the message has exactly one result with its id among the tool responses
\* sent, whatever audio the message carried.
C7_EveryCallAnswered ==
    \A no \in 1..Len(received) :
        (no \notin awaitingDecode /\ sessionPromise[received[no].session].resolved) =>
            \A i \in 1..Len(received[no].msg.calls) :
                Cardinality(ResultsWithId(<< no, i >>)) = 1

\* A message with tool calls behind a malformed audio payload has been
\* delivered and its decode has settled.
C7_Scenario ==
    \E no \in 1..Len(received) :
        /\ no \notin awaitingDecode
        /\ sessionPromise[received[no].session].resolved
        /\ received[no].msg.calls # << >>
        /\ received[no].msg.audio.present
        /\ ~received[no].msg.audio.valid
        /\ AnswersTo(no) = {}

C9_NotFoundAsStated ==
    [][ToolLoopRan =>
          /\ \A i \in 1..Len(CallsAnswered) :
                (/\ CallsAnswered[i].name \in {"controlDevice", "setDeviceValue"}
                 /\ NoDeviceNamed(CallsAnswered[i].args.deviceName))
                => BatchSent[i].response =
                       [status |-> "error", message |-> << "device not found" >>]
          /\ (\A i \in 1..Len(CallsAnswered) :
                 NoDeviceNamed(CallsAnswered[i].args.deviceName)) => devices' = devices
          /\ Phase' = Phase]_vars

\* C9 amended: the same with the message the code gives, "Unknown device".
C9_NotFoundIsError ==
    [][ToolLoopRan =>
          /\ \A i \in 1..Len(CallsAnswered) :
                (/\ CallsAnswered[i].name \in {"controlDevice", "setDeviceValue"}
                 /\ NoDeviceNamed(CallsAnswered[i].args.deviceName))
                => BatchSent[i].response =
                       [status |-> "error", message |-> << "Unknown device" >>]
          /\ (\A i \in 1..Len(CallsAnswered) :
                 NoDeviceNamed(CallsAnswered[i].args.deviceName)) => devices' = devices
          /\ Phase' = Phase]_vars

\* A setDeviceValue call and a controlDevice call that name no device have
\* both been answered.
C9_Witness ==
    /\ \E k \in 1..Len(sent) :
          /\ sent[k].kind = "toolResponse"
          /\ sent[k].functionResponses[1].name = "setDeviceValue"
          /\ sent[k].functionResponses[1].response.status = "error"
    /\ \E k \in 1..Len(sent) :
          /\ sent[k].kind = "toolResponse"
          /\ sent[k].functionResponses[1].name = "controlDevice"
          /\ sent[k].functionResponses[1].response.status = "error"

\* The schedule part of C10, over the buffers scheduled so far.
C10_ScheduleOk ==
    /\ \A k \in 1..Len(scheduled) :
          /\ scheduled[k].startAt = Max(scheduled[k].now, scheduled[k].cursor)
          /\ scheduled[k].startAt >= scheduled[k].now
    /\ \A j, k \in 1..Len(scheduled) :
          (j < k /\ scheduled[j].ctx = scheduled[k].ctx) => EndOf(j) <= scheduled[k].startAt
    /\ \A k \in 1..(Len(scheduled) - 1) :
          scheduled[k].ctx = scheduled[k + 1].ctx => scheduled[k + 1].cursor = EndOf(k)
    /\ (Len(scheduled) > 0 /\ audioContextRef = scheduled[Len(scheduled)].ctx)
          => nextStartTimeRef = EndOf(Len(scheduled))
    /\ \A k \in 1..(Len(scheduled) - 2) :
          LET b1 == scheduled[k]
              b2 == scheduled[k + 1]
              b3 == scheduled[k + 2]
          IN  (/\ b1.ctx = b2.ctx /\ b2.ctx = b3.ctx
               /\ b1.cursor <= b1.now
               /\ b1.now <= b2.now /\ b2.now <= b3.now
               /\ b3.now < b1.now + b1.duration)
              => /\ b1.startAt = b1.now
                 /\ b2.startAt = b1.now + b1.duration
                 /\ b3.startAt = b1.now + b1.duration + b2.duration

\* C10: every buffer handed to playAudioBuffer starts at max(now, cursor)
\* and leaves the cursor at its end; so no buffer starts in the past,
\* buffers of one output clock never overlap, three buffers that arrive
\* before the first one ends start at t1, t1+d1 and t1+d1+d2, and the cursor
\* never decreases from one connected state to the next.
C10_GaplessSchedule ==
    /\ []C10_ScheduleOk
    /\ [][(isLiveConnected /\ isLiveConnected') =>
             nextStartTimeRef' >= nextStartTimeRef]_vars

\* Three buffers were scheduled on one clock while connected, the first at
\* its arrival time, the others arriving later but before the first ended.
C10_Witness ==
    /\ isLiveConnected
    /\ Len(scheduled) = 3
    /\ scheduled[1].ctx = scheduled[3].ctx
    /\ scheduled[1].startAt = scheduled[1].now
    /\ scheduled[1].now < scheduled[2].now
    /\ scheduled[2].now <= scheduled[3].now
    /\ scheduled[3].now < EndOf(1)
    /\ scheduled[2].duration # scheduled[1].duration

\* C11: when a step takes a Connected session whose capture is running to
\* not connected (disconnect() ran), the capture graph is stopped, the
\* microphone stream and the input context are released, the output clock
\* is closed, the remote session is no longer open and the cursor is 0.
C11_DisconnectReleasesAll ==
    [][\A p \in Sessions :
          (/\ isLiveConnected /\ ~isLiveConnected'
           /\ processorRef = p
           /\ capture[p] = "running")
          => /\ capture'[p] = "stopped"
             /\ MediaStream(p)' # "live"
             /\ InputCtx(p)' # "running"
             /\ \A s \in Sessions : outCtx'[s] # "running"
             /\ transport'[p] \notin {"pending", "open"}
             /\ processorRef' = None /\ inputSourceRef' = None
             /\ audioContextRef' = None /\ sessionRef' = None
             /\ nextStartTimeRef' = 0]_vars

\* A session that was connected and capturing has been disconnected.
C11_Scenario ==
    \E s \in Sessions :
        capture[s] = "stopped" /\ ~isLiveConnected /\ processorRef = None

\* C12: when getUserMedia rejects for the attempt whose handshake opened,
\* the session is Closed afterwards, the attempt has no capture graph,
\* stream or input context, and no frame of it was or is ever sent.
C12_MicFailureClosesSession ==
    [][\A s \in Sessions :
          (mic[s] = "awaiting" /\ mic'[s] = "denied")
          => /\ Phase' = "Closed"
             /\ capture'[s] = "none"
             /\ MediaStream(s)' = "none"
             /\ InputCtx(s)' = "none"
             /\ \A k \in 1..Len(sent') :
                   ~(sent'[k].kind = "realtimeInput" /\ sent'[k].session = s)]_vars

\* getUserMedia rejected for a session that is shown as connected.
C12_Scenario ==
    \E s \in Sessions : mic[s] = "denied" /\ isLiveConnected /\ sessionRef = s

\* C13: a step in which disconnect() is called back leaves the state one
\* that a further disconnect() would not change (flags off, idle prompt,
\* refs empty, cursor 0), and when the session was Idle or Closed before
\* the step it changes none of the flags, the status message, the refs, the
\* output clocks and the cursor.
C13_DisconnectIdempotent ==
    [][DisconnectCalledBack
          => /\ ~isLiveConnected' /\ ~isAudioStreamActive'
             /\ statusMessage' = MsgIdle
             /\ processorRef' = None /\ inputSourceRef' = None
             /\ audioContextRef' = None /\ sessionRef' = None
             /\ nextStartTimeRef' = 0
             /\ (Phase \in {"Idle", "Closed"}
                   => UNCHANGED << uiVars, refVars, outCtx, capture >>)]_vars

\* The session is Closed and a callback that calls disconnect() can still
\* fire for it.
C13_Scenario ==
    /\ Phase = "Closed"
    /\ \E s \in Sessions : transport[s] \in {"open", "errored"}

\* C14: after a step that handles a failed connection attempt (the catch
\* block of connectToGemini ran, or onerror fired), the status message is
\* the error string of that failure and the session is Closed.
C14_FailureShowsError ==
    [][\A s \in Sessions :
          /\ (transport[s] = "none" /\ transport'[s] = "failed")
                => (statusMessage' = MsgSetupError /\ Phase' = "Closed")
          /\ (transport[s] \in {"pending", "open"} /\ transport'[s] = "errored")
                => (statusMessage' = MsgConnError /\ Phase' = "Closed")]_vars

\* A connection attempt has failed: its setup threw or onerror fired.
C14_Scenario ==
    \E s \in Sessions : transport[s] \in {"failed", "errored"}

\* C15: in every state a generic appliance (the category that defines no
\* value; the Smart TV was created without one) has no value.
C15_ValueOnlyWhereDefined ==
    \A i \in 1..Len(devices) :
        devices[i].type = "APPLIANCE" => "value" \notin DOMAIN devices[i]

\* A setDeviceValue call that resolved to the Smart TV has been answered
\* with status ok.
C15_Scenario ==
    \E k \in 1..Len(sent) :
        /\ sent[k].kind = "toolResponse"
        /\ sent[k].functionResponses[1].name = "setDeviceValue"
        /\ sent[k].functionResponses[1].response.status = "ok"
        /\ sent[k].functionResponses[1].response.message[1] = NameSmartTV

\* C16: after the tool loop ran, every device that a setDeviceValue call of
\* the batch resolved to (and no later call of the batch resolved to) has
\* exactly the value of the call, inside 0..100 or not, and the result of
\* the call has status ok and reports the device and that value.
C16_ValueSetVerbatim ==
    [][ToolLoopRan =>
          \A i \in 1..Len(CallsAnswered) :
              LET fc == CallsAnswered[i]
                  t == FindDevice(devices, fc.args.deviceName)
              IN  (/\ fc.name = "setDeviceValue"
                   /\ t # None
                   /\ \A j \in (i + 1)..Len(CallsAnswered) :
                          FindDevice(devices, CallsAnswered[j].args.deviceName) # t)
                  => /\ ValueOf(devices'[t]) = << fc.args.value >>
                     /\ BatchSent[i].response.status = "ok"
                     /\ BatchSent[i].response.message =
                            << devices[t].name, "ajustado para", fc.args.value >>]_vars

\* Values above 100 and below 0 were set by tool calls and are in the
\* registry.
C16_Witness ==
    /\ \E i \in 1..Len(devices) : ValueOf(devices[i]) = << 150 >>
    /\ \E i \in 1..Len(devices) : ValueOf(devices[i]) = << -5 >>
    /\ Len(sent) = 2

\* C17: every step keeps the number and order of devices and the id, name,
\* category and room of each (and adds or removes no field but value); a
\* card action or a one-call tool batch changes at most one device, in isOn
\* alone or in value alone; a controlDevice call changes only isOn of its
\* target and a setDeviceValue call only value of its target.
C17_MutationsAreFramed ==
    [][/\ Len(devices') = Len(devices)
       /\ \A i \in 1..Len(devices) :
             /\ devices'[i].id = devices[i].id
             /\ devices'[i].name = devices[i].name
             /\ devices'[i].type = devices[i].type
             /\ devices'[i].room = devices[i].room
             /\ DOMAIN devices'[i] \ {"value"} = DOMAIN devices[i] \ {"value"}
       /\ (~ToolLoopRan \/ Len(CallsAnswered) = 1)
             => /\ Cardinality(Changed) <= 1
                /\ \A i \in Changed :
                      \/ ValueOf(devices'[i]) = ValueOf(devices[i])
                      \/ devices'[i].isOn = devices[i].isOn
       /\ (ToolLoopRan /\ Len(CallsAnswered) = 1)
             => LET fc == CallsAnswered[1]
                    t == FindDevice(devices, fc.args.deviceName)
                IN  /\ Changed \subseteq {t}
                    /\ \A i \in Changed :
                          IF fc.name = "controlDevice"
                          THEN ValueOf(devices'[i]) = ValueOf(devices[i])
                          ELSE devices'[i].isOn = devices[i].isOn]_vars

\* The registry has been changed in isOn and in value, by tool calls and
\* from the cards: the lamp of the living room is on with a value that only
\* the + button gives, and the Smart TV is on with a value.
C17_Witness ==
    /\ devices[1].isOn /\ devices[1].value = 90
    /\ devices[5].isOn /\ "value" \in DOMAIN devices[5]
    /\ Len(sent) >= 1

\* The order part of C18, over the frames captured so far.
C18_EveryFrameOnceInOrder ==
    /\ \A s \in Sessions :
          /\ \A k \in 1..(Len(Relayed(s)) - 1) :
                Relayed(s)[k].frame < Relayed(s)[k + 1].frame
          /\ sessionPromise[s].resolved => sessionPromise[s].thens = << >>
    /\ \A n \in 1..frames :
          Cardinality({ sk \in UNION { { << s, k >> : k \in 1..Len(Relayed(s)) } :
                                          s \in Sessions } :
                          Relayed(sk[1])[sk[2]].frame = n }) = 1

\* C18: every frame captured so far is handed to sendRealtimeInput of the
\* session of its capture exactly once, or waits for that once on the
\* pending session promise; the frames of a session are sent in the order
\* they were captured; once the promise has resolved no frame waits; and a
\* frame that the capture of the connected session emits goes to a socket
\* that is open.
C18_FramesRelayedInOrder ==
    /\ []C18_EveryFrameOnceInOrder
    /\ [][\A s \in Sessions :
             (/\ frames' = frames + 1
              /\ isLiveConnected /\ sessionRef = s
              /\ Len(Relayed(s)') = Len(Relayed(s)) + 1)
             => /\ transport[s] = "open"
                /\ Relayed(s)'[Len(Relayed(s)')].frame = frames']_vars

\* Three frames captured while connected have been sent to the session.
C18_Witness ==
    /\ isLiveConnected
    /\ \E s \in Sessions :
          /\ sessionRef = s /\ processorRef = s
          /\ Len(FramesOf(sent, s)) = 3

\* C19: for the query q of a tool call (of either function) and the
\* registry D of the state, the lookup gives the first device in registry
\* order whose name contains q case-insensitively, and none exactly when no
\* name contains q: the call is answered with that device's name and changes
\* no other device, and with an error and no change when there is none.
C19_FirstMatchInRegistryOrder ==
    [][(ToolLoopRan /\ Len(CallsAnswered) = 1) =>
          LET fc == CallsAnswered[1]
              q == fc.args.deviceName
          IN  /\ (Matching(q) = {}) <=> (FindDevice(devices, q) = None)
              /\ (Matching(q) = {}) <=> (BatchSent[1].response.status = "error")
              /\ Matching(q) = {} => devices' = devices
              /\ \A f \in Matching(q) :
                    (\A k \in Matching(q) : f <= k)
                    => /\ FindDevice(devices, q) = f
                       /\ BatchSent[1].response.status = "ok"
                       /\ BatchSent[1].response.message[1] = devices[f].name
                       /\ Changed \subseteq {f}]_vars

\* On the reversed registry a query that several names contain has been
\* answered by each tool function, and so has a query that no name contains.
C19_Witness ==
    /\ Len(devices) = 6 /\ devices[1].id = "6"
    /\ Len(sent) = 2
    /\ \E no \in 1..Len(received) :
          /\ received[no].msg.calls[1].args.deviceName = QueryInexistente
    /\ \E no \in 1..Len(received) :
          /\ received[no].msg.calls[1].args.deviceName = QueryLuz
          /\ received[no].msg.calls[1].name = "setDeviceValue"
          /\ devices[1].value = 10

\* C20: when the decode of an audio payload settles after the session that
\* received it was disconnected (its output clock is closed), the step
\* schedules nothing and leaves the cursor as it was, whether no session is
\* active or a newer one has been started.
C20_StaleAudioNotScheduled ==
    [][\A no \in 1..Len(received) :
          (/\ no \in awaitingDecode
           /\ no \notin awaitingDecode'
           /\ outCtx[received[no].session] = "closed")
          => /\ scheduled' = scheduled
             /\ nextStartTimeRef' = nextStartTimeRef]_vars

\* A decode is pending for a session that was disconnected, and a newer
\* session has put its output clock in the ref.
C20_Scenario ==
    \E no \in awaitingDecode :
        /\ outCtx[received[no].session] = "closed"
        /\ audioContextRef # None
        /\ audioContextRef # received[no].session

\* C21: inbound messages take effect in arrival order: of two tool
\* responses sent, the earlier answers the message that arrived earlier; a
\* message that has been answered leaves no earlier message with tool calls
\* still waiting for its decode; and when every audio payload received has
\* been scheduled, the buffers were scheduled in the order of arrival.
C21_EffectsInArrivalOrder ==
    /\ \A j, k \in ToolResponsesSent :
          j < k => sent[j].functionResponses[1].id[1] < sent[k].functionResponses[1].id[1]
    /\ \A k \in ToolResponsesSent :
          \A no \in awaitingDecode :
              (no < sent[k].functionResponses[1].id[1]) => received[no].msg.calls = << >>
    /\ (awaitingDecode = {} /\ Len(scheduled) = Len(AudioReceived))
          => \A k \in 1..Len(scheduled) :
                scheduled[k].duration = AudioReceived[k].msg.audio.duration

\* A message with tool calls is waiting for the decode of its audio payload
\* and a second message has arrived behind it.
C21_Scenario ==
    /\ Len(received) = 2
    /\ 1 \in awaitingDecode
    /\ received[1].msg.calls # << >>
    /\ received[2].msg.calls # << >>
    /\ isLiveConnected

\* C22: after the tool loop ran the batch has one entry per call, and every
\* call whose name is neither controlDevice nor setDeviceValue has its
\* entry at its place, with the id and the name of the call and a result
\* of status error; the registry is what the other calls of the message
\* alone make it, so such a call changes no device.
C22_UnknownFunctionIsError ==
    [][ToolLoopRan =>
          /\ Len(BatchSent) = Len(CallsAnswered)
          /\ \A i \in 1..Len(CallsAnswered) :
                CallsAnswered[i].name \notin {"controlDevice", "setDeviceValue"}
                => /\ BatchSent[i].id = CallsAnswered[i].id
                   /\ BatchSent[i].name = CallsAnswered[i].name
                   /\ BatchSent[i].response.status = "error"
          /\ devices' = DispatchDevices(
                 SelectSeq(CallsAnswered,
                           LAMBDA fc : fc.name \in {"controlDevice", "setDeviceValue"}),
                 devices, devices)]_vars

\* A call of an unknown function that names an existing device has been
\* answered with an error, alone in its message and behind another call.
C22_Witness ==
    /\ \E k \in ToolResponsesSent :
          /\ Len(sent[k].functionResponses) = 1
          /\ sent[k].functionResponses[1].name = "lockDoor"
          /\ sent[k].functionResponses[1].response.status = "error"
    /\ \E k \in ToolResponsesSent :
          /\ Len(sent[k].functionResponses) = 2
          /\ sent[k].functionResponses[2].name = "lockDoor"
          /\ sent[k].functionResponses[2].response.status = "error"

====
